---- MODULE Spec2Model ----
(***************************************************************************)
(* QueryRunner: the bounded-concurrency batch search of main.go.           *)
(*                                                                         *)
(* main builds allQueries from the query file, repeated `iterations`       *)
(* times, and hands it to BatchSearcher.RunBatchSearch together with the   *)
(* -concurrency flag.  RunBatchSearch starts one goroutine per query,      *)
(* admitted through the buffered channel rateLimiter, and joins them with  *)
(* a sync.WaitGroup.  Each goroutine calls performSearch, adds one to one  *)
(* of the two counters, writes results[queryIndex], and then runs its two  *)
(* deferred calls: the receive from rateLimiter, then wg.Done.             *)
(*                                                                         *)
(* Slices are 0-based as in Go: a slice of length n is a function on       *)
(* 0..n-1.                                                                 *)
(***************************************************************************)
EXTENDS Integers, FiniteSets, Sequences, TLC

\* Bounds of the model.
MaxLen == 2
MaxLimit == 2
MaxCount == 7
MaxLocations == 2

\* http.StatusOK.
StatusOK == 200

\* The status codes the endpoint answers with.
Statuses == {StatusOK, 500}

\* The nil error.
NilError == [msg |-> "", cause |-> ""]

\* The nil *SearchResult.
NilResult == [nil |-> TRUE, hitsFor |-> 0]

\* A body that json.Unmarshal rejects; the empty body is one.
BadBody == [json |-> FALSE, hitsFor |-> 0]

\* The nil slice of QueryResult.
NilSlice == [p \in {} |-> 0]

\* What the dispatcher (the goroutine running RunBatchSearch) is about to do.
DispatcherPCs == {"make", "loop", "send", "go", "wait", "return", "returned", "panicked"}

\* What a unit of work (the goroutine of main.go:124) is about to do:
\*   idle     not started
\*   do       call performSearch: build the request, client.Do
\*   read     ioutil.ReadAll of the response body
\*   decode   the status check, json.Unmarshal, performSearch's return
\*   count    the test of err and the atomic.AddInt64
\*   write    the assignment to results[queryIndex]
\*   release  the deferred receive from rateLimiter
\*   done     the deferred wg.Done
\*   exit     the goroutine has ended
UnitPCs == {"idle", "do", "read", "decode", "count", "write", "release", "done", "exit"}

VARIABLES
    queries,       \* the queries argument: allQueries of main
    batchSize,     \* the batchSize argument: the -concurrency flag
    ctxDone,       \* the ctx argument has been cancelled
    pc,            \* the dispatcher's position in RunBatchSearch
    i,             \* the loop variable of the for-range loop
    rateLimiter,   \* number of values buffered in the channel rateLimiter
    wg,            \* the WaitGroup's counter
    successCount,
    failureCount,
    results,       \* the results slice
    unit,          \* the goroutines started, by order of start
    returned,      \* the three values RunBatchSearch returned
    calls,         \* per input position, how often performSearch was called for it
    writes,        \* per slot of results, how often it has been written
    atCancel,      \* per goroutine, how far it was when ctx was cancelled
    ctxAtEntry,    \* ctx was already cancelled when RunBatchSearch was entered
    gen            \* the run of GenerateQueries (query.go)

vars == <<queries, batchSize, ctxDone, pc, i, rateLimiter, wg, successCount,
          failureCount, results, unit, returned, calls, writes, atCancel,
                   ctxAtEntry, gen>>

\* len(queries) and the indexes of the slice.
L == Cardinality(DOMAIN queries)
Positions == 0 .. (L - 1)

\* main.go:181-191: every query of the file, `iterations` times over.
\* The k-th query of the file is the blob k+1.
allQueries(numFile, iterations) ==
    [k \in 0 .. (numFile * iterations - 1) |-> (k % numFile) + 1]

\* The zero value of QueryResult (main.go:105-109), as make fills the slice.
ZeroQueryResult == [QueryIndex |-> 0, Result |-> NilResult, Error |-> NilError]

\* The body the search endpoint answers a query with, and its decoding.
BodyFor(query) == [json |-> TRUE, hitsFor |-> query]
SearchResultOf(body) == [nil |-> FALSE, hitsFor |-> body.hitsFor]

\* The cause of an error that a cancelled ctx makes net/http return.
Canceled == "context canceled"

\* The causes client.Do fails with while ctx is live: the connection fails
\* or the client's Timeout (main.go:56) runs out.
DoFailures == {"transport"}

\* The cause ReadAll fails with while ctx is live.
ReadFailures == {"unexpected EOF"}

\* The errors performSearch returns: fmt.Errorf of a message and a cause.
ErrExecute(cause) == [msg |-> "failed to execute request", cause |-> cause]
ErrRead(cause) == [msg |-> "failed to read response", cause |-> cause]
ErrStatus(status) ==
    [msg |-> "server returned status",
     cause |-> IF status = StatusOK THEN "200" ELSE "not 200"]
ErrParse == [msg |-> "failed to parse response", cause |-> "invalid character"]

\* A goroutine that has not been started.
IdleUnit ==
    [pc |-> "idle", queryIndex |-> 0, searchQuery |-> 0,
     status |-> 0, body |-> BadBody, result |-> NilResult, err |-> NilError]

\* GenerateQueries is not running.
GenIdle == [pc |-> "idle", n |-> 0, locations |-> 0, i |-> 0, queries |-> << >>]

Init ==
    /\ \E numFile \in 0 .. MaxLen, iterations \in 0 .. MaxLen :
          /\ numFile * iterations <= MaxLen
          /\ queries = allQueries(numFile, iterations)
    /\ batchSize \in (-1) .. MaxLimit
    /\ ctxDone \in BOOLEAN
    /\ ctxAtEntry = ctxDone
    /\ gen = GenIdle
    /\ pc = "make"
    /\ i = 0
    /\ rateLimiter = 0
    /\ wg = 0
    /\ successCount = 0
    /\ failureCount = 0
    /\ results = NilSlice
    /\ unit = [g \in Positions |-> IdleUnit]
    /\ returned = [successCount |-> 0, failureCount |-> 0, results |-> NilSlice]
    /\ calls = [p \in Positions |-> 0]
    /\ writes = [p \in Positions |-> 0]
    /\ atCancel = [g \in Positions |-> "idle"]

------------------------------------------------------------------------------
\* The dispatcher: RunBatchSearch, main.go:111-149.

\* main.go:112-118: the var block.  make(chan struct{}, batchSize) panics
\* on a negative size.
Make ==
    /\ pc = "make"
    /\ IF batchSize < 0
          THEN /\ pc' = "panicked"
               /\ UNCHANGED results
          ELSE /\ pc' = "loop"
               /\ results' = [p \in Positions |-> ZeroQueryResult]
    /\ UNCHANGED <<queries, batchSize, ctxDone, i, rateLimiter, wg, successCount,
                   failureCount, unit, returned, calls, writes, atCancel,
                   ctxAtEntry, gen>>

\* main.go:120-121: the range test, and wg.Add(1) for the next query.
Loop ==
    /\ pc = "loop"
    /\ IF i < L
          THEN /\ wg' = wg + 1
               /\ pc' = "send"
          ELSE /\ pc' = "wait"
               /\ UNCHANGED wg
    /\ UNCHANGED <<queries, batchSize, ctxDone, i, rateLimiter, successCount,
                   failureCount, results, unit, returned, calls, writes, atCancel,
                   ctxAtEntry, gen>>

\* CanSend with one place of the channel never used.
CanSendStrict == rateLimiter + 1 < batchSize

\* CanSend with the capacity off by one.
CanSendOffByOne == rateLimiter <= batchSize

\* The channel has room for one more value.  No goroutine is ever waiting to
\* receive, so a channel of capacity 0 never takes one.
CanSend == rateLimiter < batchSize

\* main.go:122: rateLimiter <- struct{}{} blocks while the buffer is full.
Send ==
    /\ pc = "send"
    /\ CanSend
    /\ rateLimiter' = rateLimiter + 1
    /\ pc' = "go"
    /\ UNCHANGED <<queries, batchSize, ctxDone, i, wg, successCount,
                   failureCount, results, unit, returned, calls, writes, atCancel,
                   ctxAtEntry, gen>>

\* StartedUnit with every goroutine given the index 0.
StartedUnitSlotZero(idx, query) ==
    [IdleUnit EXCEPT !.pc = "do", !.queryIndex = 0, !.searchQuery = query]

\* StartedUnit with the first query passed whatever the position.
StartedUnitFirstQuery(idx, query) ==
    [IdleUnit EXCEPT !.pc = "do", !.queryIndex = idx, !.searchQuery = queries[0]]

\* The goroutine that the go statement of main.go:124,143 starts with the
\* arguments (idx, query).
StartedUnit(idx, query) ==
    [IdleUnit EXCEPT !.pc = "do", !.queryIndex = idx, !.searchQuery = query]

\* NextIndex that skips a position.
NextIndexSkip(idx) == idx + 2

\* main.go:120: the range loop's step to the next index.
NextIndex(idx) == idx + 1

\* main.go:124-143: the go statement, and the step to the next query.
Go ==
    /\ pc = "go"
    /\ unit' = [unit EXCEPT ![i] = StartedUnit(i, queries[i])]
    /\ i' = NextIndex(i)
    /\ pc' = "loop"
    /\ UNCHANGED <<queries, batchSize, ctxDone, rateLimiter, wg, successCount,
                   failureCount, results, returned, calls, writes, atCancel,
                   ctxAtEntry, gen>>

\* WaitDone that lets one goroutine go unjoined.
WaitDoneEarly == wg <= 1

\* wg.Wait returns once the counter is zero.
WaitDone == wg = 0

\* main.go:146: wg.Wait().
Wait ==
    /\ pc = "wait"
    /\ WaitDone
    /\ pc' = "return"
    /\ UNCHANGED <<queries, batchSize, ctxDone, i, rateLimiter, wg, successCount,
                   failureCount, results, unit, returned, calls, writes, atCancel,
                   ctxAtEntry, gen>>

\* main.go:148: return successCount, failureCount, results.
Return ==
    /\ pc = "return"
    /\ returned' = [successCount |-> successCount,
                    failureCount |-> failureCount,
                    results |-> results]
    /\ pc' = "returned"
    /\ UNCHANGED <<queries, batchSize, ctxDone, i, rateLimiter, wg, successCount,
                   failureCount, results, unit, calls, writes, atCancel,
                   ctxAtEntry, gen>>

------------------------------------------------------------------------------
\* A unit of work: the goroutine of main.go:124-143 and the performSearch it
\* calls, main.go:65-103.

\* DoOutcomes with a failed request sent again.
DoOutcomesRetry(u, cancelled) ==
    IF cancelled
       THEN {[u EXCEPT !.err = ErrExecute(Canceled), !.pc = "count"]}
       ELSE {[u EXCEPT !.pc = "do"]}
            \cup {[u EXCEPT !.status = st, !.pc = "read"] :
                     st \in Statuses}

\* DoOutcomes with a request built without ctx.
DoOutcomesNoCtx(u, cancelled) ==
    {[u EXCEPT !.err = ErrExecute(cause), !.pc = "count"] : cause \in DoFailures}
    \cup {[u EXCEPT !.status = st, !.pc = "read"] : st \in Statuses}

\* main.go:66-85: the request is built and sent; client.Do returns the
\* response head or an error.  A cancelled ctx makes it fail.
DoOutcomes(u, cancelled) ==
    IF cancelled
       THEN {[u EXCEPT !.err = ErrExecute(Canceled), !.pc = "count"]}
       ELSE {[u EXCEPT !.err = ErrExecute(cause), !.pc = "count"] :
                cause \in DoFailures}
            \cup {[u EXCEPT !.status = st, !.pc = "read"] :
                     st \in Statuses}

\* The bodies the endpoint sends after a response head: hits or something
\* that is not JSON after StatusOK, an error text after any other status.
Bodies(u) ==
    IF u.status = StatusOK THEN {BodyFor(u.searchQuery), BadBody} ELSE {BadBody}

\* main.go:86-91: the body is read to its end, or the read fails.  Under a
\* cancelled ctx the read fails, unless the whole body had arrived before.
ReadOutcomes(u, cancelled) ==
    {[u EXCEPT !.body = b, !.pc = "decode"] : b \in Bodies(u)}
    \cup IF cancelled
            THEN {[u EXCEPT !.err = ErrRead(Canceled), !.pc = "count"]}
            ELSE {[u EXCEPT !.err = ErrRead(cause), !.pc = "count"] :
                     cause \in ReadFailures}

\* main.go:93-102: the status check, json.Unmarshal and the return.
Decoded(u) ==
    IF u.status # StatusOK
       THEN [u EXCEPT !.err = ErrStatus(u.status), !.pc = "count"]
       ELSE IF u.body = BadBody
               THEN [u EXCEPT !.err = ErrParse, !.pc = "count"]
               ELSE [u EXCEPT !.result = SearchResultOf(u.body), !.pc = "count"]

\* Failed with the test inverted.
FailedInverted(u) == u.err = NilError

\* main.go:129: the test that picks the failure branch.
Failed(u) == u.err # NilError

\* Outcome with QueryIndex left out of the failure's QueryResult.
OutcomeNoIndex(u) ==
    IF Failed(u)
       THEN [QueryIndex |-> 0, Result |-> NilResult, Error |-> u.err]
       ELSE [QueryIndex |-> u.queryIndex, Result |-> u.result, Error |-> NilError]

\* main.go:131-134 and 138-141: the QueryResult a goroutine stores.
Outcome(u) ==
    IF Failed(u)
       THEN [QueryIndex |-> u.queryIndex, Result |-> NilResult, Error |-> u.err]
       ELSE [QueryIndex |-> u.queryIndex, Result |-> u.result, Error |-> NilError]

\* AfterStep with the receive from rateLimiter not deferred, but done
\* before the assignment to results.
AfterStepReleaseFirst(step) ==
    CASE step = "count" -> "release"
      [] step = "release" -> "write"
      [] step = "write" -> "done"
      [] step = "done" -> "exit"

\* main.go:125-142: what a goroutine does after a step, once performSearch
\* has returned: the atomic add, the assignment to results, then the two
\* deferred calls, last deferred first.
AfterStep(step) ==
    CASE step = "count" -> "write"
      [] step = "write" -> "release"
      [] step = "release" -> "done"
      [] step = "done" -> "exit"

\* main.go:128, 66-85: the goroutine calls performSearch, which runs up to
\* the return of client.Do.
Do(g) ==
    /\ unit[g].pc = "do"
    /\ \E u \in DoOutcomes(unit[g], ctxDone) : unit' = [unit EXCEPT ![g] = u]
    /\ calls' = [calls EXCEPT ![unit[g].queryIndex] = @ + 1]
    /\ UNCHANGED <<queries, batchSize, ctxDone, pc, i, rateLimiter, wg, successCount,
                   failureCount, results, returned, writes, atCancel,
                   ctxAtEntry, gen>>

\* main.go:88-91: ioutil.ReadAll.
Read(g) ==
    /\ unit[g].pc = "read"
    /\ \E u \in ReadOutcomes(unit[g], ctxDone) : unit' = [unit EXCEPT ![g] = u]
    /\ UNCHANGED <<queries, batchSize, ctxDone, pc, i, rateLimiter, wg, successCount,
                   failureCount, results, returned, calls, writes, atCancel,
                   ctxAtEntry, gen>>

\* main.go:93-102: performSearch's last steps and its return.
Decode(g) ==
    /\ unit[g].pc = "decode"
    /\ unit' = [unit EXCEPT ![g] = Decoded(unit[g])]
    /\ UNCHANGED <<queries, batchSize, ctxDone, pc, i, rateLimiter, wg, successCount,
                   failureCount, results, returned, calls, writes, atCancel,
                   ctxAtEntry, gen>>

\* Counted with the failure branch's increment left out.
CountedNoFailure(u, sc, fc) ==
    IF Failed(u) THEN <<sc, fc>> ELSE <<sc + 1, fc>>

\* Counted with the success counter incremented on either branch.
CountedAlwaysSuccess(u, sc, fc) == <<sc + 1, fc>>

\* main.go:129-130, 137: the two counters after the goroutine's
\* atomic.AddInt64, as <<successCount, failureCount>>.
Counted(u, sc, fc) ==
    IF Failed(u) THEN <<sc, fc + 1>> ELSE <<sc + 1, fc>>

\* main.go:129-130, 137: atomic.AddInt64 on one of the two counters.
Count(g) ==
    /\ unit[g].pc = "count"
    /\ successCount' = Counted(unit[g], successCount, failureCount)[1]
    /\ failureCount' = Counted(unit[g], successCount, failureCount)[2]
    /\ unit' = [unit EXCEPT ![g].pc = AfterStep("count")]
    /\ UNCHANGED <<queries, batchSize, ctxDone, pc, i, rateLimiter, wg,
                   results, returned, calls, writes, atCancel,
                   ctxAtEntry, gen>>

\* main.go:131-134, 138-141: the assignment to results[queryIndex].
WriteResult(g) ==
    /\ unit[g].pc = "write"
    /\ results' = [results EXCEPT ![unit[g].queryIndex] = Outcome(unit[g])]
    /\ writes' = [writes EXCEPT ![unit[g].queryIndex] = @ + 1]
    /\ unit' = [unit EXCEPT ![g].pc = AfterStep("write")]
    /\ UNCHANGED <<queries, batchSize, ctxDone, pc, i, rateLimiter, wg, successCount,
                   failureCount, returned, calls, atCancel,
                   ctxAtEntry, gen>>

\* main.go:126: the deferred receive from rateLimiter, run first.
Release(g) ==
    /\ unit[g].pc = "release"
    /\ rateLimiter > 0
    /\ rateLimiter' = rateLimiter - 1
    /\ unit' = [unit EXCEPT ![g].pc = AfterStep("release")]
    /\ UNCHANGED <<queries, batchSize, ctxDone, pc, i, wg, successCount,
                   failureCount, results, returned, calls, writes, atCancel,
                   ctxAtEntry, gen>>

\* main.go:125: the deferred wg.Done, run last.
Done(g) ==
    /\ unit[g].pc = "done"
    /\ wg' = wg - 1
    /\ unit' = [unit EXCEPT ![g].pc = AfterStep("done")]
    /\ UNCHANGED <<queries, batchSize, ctxDone, pc, i, rateLimiter, successCount,
                   failureCount, results, returned, calls, writes, atCancel,
                   ctxAtEntry, gen>>

\* How far a goroutine is with its call of performSearch:
\*   idle      the goroutine has not been started
\*   pending   client.Do has not returned
\*   inflight  client.Do has returned, performSearch has not
\*   returned  performSearch has returned
CallStage(u) ==
    IF u.pc = "idle" THEN "idle"
    ELSE IF u.pc = "do" THEN "pending"
    ELSE IF u.pc \in {"read", "decode"} THEN "inflight"
    ELSE "returned"

\* The caller of RunBatchSearch cancels ctx while the run is going on.
Cancel ==
    /\ ~ctxDone
    /\ pc \notin {"returned", "panicked"}
    /\ ctxDone' = TRUE
    /\ atCancel' = [g \in Positions |-> CallStage(unit[g])]
    /\ UNCHANGED <<queries, batchSize, pc, i, rateLimiter, wg, successCount,
                   failureCount, results, unit, returned, calls, writes,
                   ctxAtEntry, gen>>

Next ==
    \/ Make
    \/ Loop
    \/ Send
    \/ Go
    \/ Wait
    \/ Return
    \/ Cancel
    \/ \E g \in Positions : Do(g)
    \/ \E g \in Positions : Read(g)
    \/ \E g \in Positions : Decode(g)
    \/ \E g \in Positions : Count(g)
    \/ \E g \in Positions : WriteResult(g)
    \/ \E g \in Positions : Release(g)
    \/ \E g \in Positions : Done(g)

Spec == Init /\ [][Next]_vars

\* The steps of the goroutine that runs RunBatchSearch.
Dispatcher == Make \/ Loop \/ Send \/ Go \/ Wait \/ Return

\* The steps of the goroutine started for position g.
UnitStep(g) ==
    /\ g \in Positions
    /\ \/ Do(g)
       \/ Read(g)
       \/ Decode(g)
       \/ Count(g)
       \/ WriteResult(g)
       \/ Release(g)
       \/ Done(g)

\* The Go scheduler runs every goroutine that can take a step, and every
\* call of net/http returns: by its answer, by ctx or by the client's Timeout
\* (main.go:56).
FairSpec ==
    /\ Spec
    /\ WF_vars(Dispatcher)
    /\ \A g \in 0 .. (MaxLen - 1) : WF_vars(UnitStep(g))

TypeOK ==
    /\ pc \in DispatcherPCs
    /\ \A g \in Positions : unit[g].pc \in UnitPCs
    /\ rateLimiter \in 0 .. MaxLimit
    /\ wg \in 0 .. MaxLen

------------------------------------------------------------------------------
\* Properties of RunBatchSearch.

\* RunBatchSearch has returned.
HasReturned == pc = "returned"

\* What performSearch returned to the goroutine started for position p.
CallFailed(p) == unit[p].err # NilError
CallCancelled(p) == unit[p].err.cause = Canceled

\* The QueryResult at position p of the returned slice reports a failure.
IsFailure(p) == returned.results[p].Error # NilError

\* The goroutines that are in their call of performSearch.
Executing == {g \in Positions : unit[g].pc \in {"do", "read", "decode"}}

\* The goroutines that have done their atomic.AddInt64.
HaveCounted == {g \in Positions : unit[g].pc \in {"write", "release", "done", "exit"}}

\* C1: with batchSize >= 1, the slice RunBatchSearch returns has len(queries)
\* elements, and element p carries QueryIndex p and the result or error that
\* performSearch returned for queries[p], whatever the order the goroutines
\* finished in.
C1_PositionFidelity ==
    (HasReturned /\ batchSize >= 1) =>
        /\ DOMAIN returned.results = Positions
        /\ \A p \in Positions :
              /\ returned.results[p].QueryIndex = p
              /\ unit[p].searchQuery = queries[p]
              /\ returned.results[p].Error = unit[p].err
              /\ returned.results[p].Result = unit[p].result
              /\ ~IsFailure(p) => returned.results[p].Result.hitsFor = queries[p]

\* A return after the goroutine of position 1 had its call's result while the
\* goroutine of position 0 had not yet sent its request.
C1_Witness ==
    /\ HasReturned
    /\ batchSize >= 2
    /\ L >= 2
    /\ ctxDone
    /\ atCancel[0] = "pending"
    /\ atCancel[1] = "returned"
    /\ ~IsFailure(1)
    /\ returned.results[1].Result.hitsFor = queries[1]
    /\ returned.results[0].QueryIndex = 0

\* C2: with batchSize >= 1, at most batchSize goroutines are in their call
\* of performSearch in any state.
C2_AdmissionBound ==
    batchSize >= 1 => Cardinality(Executing) <= batchSize

\* The dispatcher waits to send while batchSize goroutines are in their calls.
C2_Witness ==
    /\ batchSize >= 1
    /\ pc = "send"
    /\ Cardinality(Executing) = batchSize
    /\ rateLimiter = batchSize

\* C3: the two counts RunBatchSearch returns add up to len(queries).
C3_CountsAddUp ==
    HasReturned => returned.successCount + returned.failureCount = L

\* A return with successes and failures among at least two queries.
C3_Witness ==
    /\ HasReturned
    /\ L >= 2
    /\ returned.successCount >= 1
    /\ returned.failureCount >= 1

\* C4: in every state successCount is the number of goroutines that have
\* counted and whose call returned no error, failureCount the number of those
\* whose call returned an error; the counts returned are the numbers of
\* returned QueryResults without and with an Error.
C4_CountersExact ==
    /\ successCount = Cardinality({g \in HaveCounted : ~CallFailed(g)})
    /\ failureCount = Cardinality({g \in HaveCounted : CallFailed(g)})
    /\ HasReturned =>
          /\ HaveCounted = Positions
          /\ returned.successCount = Cardinality({p \in Positions : ~IsFailure(p)})
          /\ returned.failureCount = Cardinality({p \in Positions : IsFailure(p)})

\* A return where position 0 failed and position 1 succeeded.
C4_Witness ==
    /\ HasReturned
    /\ L >= 2
    /\ IsFailure(0)
    /\ ~IsFailure(1)
    /\ returned.successCount = Cardinality({p \in Positions : ~IsFailure(p)})

\* C5: from wg.Wait's return on, every goroutine started has ended, every
\* position has had its goroutine, and rateLimiter holds no value.
C5_JoinBeforeReturn ==
    pc \in {"return", "returned"} =>
        /\ \A g \in Positions : unit[g].pc = "exit"
        /\ rateLimiter = 0
        /\ wg = 0

\* A return of a run that had goroutines to wait for.
C5_Witness ==
    /\ HasReturned
    /\ L >= 2
    /\ batchSize >= 1
    /\ rateLimiter = 0
    /\ \A g \in Positions : unit[g].pc = "exit"

\* C6: performSearch is never called twice for a position and no slot of
\* results is written twice; at the return each position has had exactly one
\* call and one write.
C6_OncePerPosition ==
    /\ \A p \in Positions : calls[p] <= 1 /\ writes[p] <= 1
    /\ HasReturned => \A p \in Positions : calls[p] = 1 /\ writes[p] = 1

\* A return after a call failed: it was not made again.
C6_Witness ==
    /\ HasReturned
    /\ L >= 2
    /\ \E p \in Positions : CallFailed(p) /\ calls[p] = 1 /\ writes[p] = 1

\* C7: with no queries, RunBatchSearch goes from its entry to its return
\* without panicking, without sending to rateLimiter and without a call, and
\* returns two zero counts and an empty slice, whatever batchSize is.
C7_EmptyInput ==
    L = 0 =>
        /\ pc \in {"make", "loop", "wait", "return", "returned"}
        /\ rateLimiter = 0
        /\ HasReturned =>
              /\ returned.successCount = 0
              /\ returned.failureCount = 0
              /\ DOMAIN returned.results = {}

\* C8: when every call of performSearch failed, every position was called,
\* and RunBatchSearch returns failureCount = len(queries), successCount = 0
\* and at every position p a QueryResult with an Error and QueryIndex p.
C8_AllFail ==
    (HasReturned /\ \A p \in Positions : CallFailed(p)) =>
        /\ returned.failureCount = L
        /\ returned.successCount = 0
        /\ \A p \in Positions :
              /\ calls[p] = 1
              /\ IsFailure(p)
              /\ returned.results[p].QueryIndex = p

\* A return of a run of at least two queries whose calls all failed, with
\* ctx never cancelled.
C8_Witness ==
    /\ HasReturned
    /\ ~ctxDone
    /\ L >= 2
    /\ \A p \in Positions : CallFailed(p)
    /\ returned.failureCount = L

\* Running the calls one after the other in the order of the input: the
\* counts and the failure pattern after the first n positions, for a call
\* that fails exactly at the positions of fails.
RECURSIVE Sequential(_, _)
Sequential(fails, n) ==
    IF n = 0
       THEN [successCount |-> 0, failureCount |-> 0, failed |-> {}]
       ELSE LET before == Sequential(fails, n - 1)
                p == n - 1
            IN  IF p \in fails
                   THEN [before EXCEPT !.failureCount = @ + 1,
                                       !.failed = @ \cup {p}]
                   ELSE [before EXCEPT !.successCount = @ + 1]

\* The positions whose call failed in this run.
FailedCalls == {p \in Positions : CallFailed(p)}

\* C9: for every batchSize >= 1, the counts and the failure pattern returned
\* are those of running the same calls one after the other in input order;
\* in particular, when the calls fail exactly at the odd positions, the
\* returned pattern is the parity of the position.
C9_AsSequential ==
    (HasReturned /\ batchSize >= 1) =>
        /\ [successCount |-> returned.successCount,
            failureCount |-> returned.failureCount,
            failed |-> {p \in Positions : IsFailure(p)}]
              = Sequential(FailedCalls, L)
        /\ FailedCalls = {p \in Positions : p % 2 = 1} =>
              /\ \A p \in Positions : IsFailure(p) <=> (p % 2 = 1)
              /\ returned.failureCount = L \div 2
              /\ returned.successCount = L - (L \div 2)

\* A return of a run with more than one goroutine at a time whose calls
\* failed exactly at the odd positions.
C9_Witness ==
    /\ HasReturned
    /\ batchSize >= 2
    /\ L >= 2
    /\ FailedCalls = {p \in Positions : p % 2 = 1}
    /\ \A p \in Positions : IsFailure(p) <=> (p % 2 = 1)

\* ctx was cancelled when some goroutine had been started and not all calls
\* had returned.
CancelledMidRun ==
    /\ ctxDone
    /\ \E g \in Positions : atCancel[g] # "idle"
    /\ \E g \in Positions : atCancel[g] # "returned"

\* Every position has its QueryResult, written once, with its QueryIndex.
AllOutcomes ==
    /\ DOMAIN returned.results = Positions
    /\ \A p \in Positions : writes[p] = 1 /\ returned.results[p].QueryIndex = p

------------------------------------------------------------------------------
\* GenerateQueries and makeQueries, query.go:47-125, which main calls with
\* the -numqueries flag when queries.json does not exist.

\* The number of query shapes makeQueries appends per iteration.
Shapes == <<"location", "relationship", "conjunct">>

\* Go's integer division by a positive number: it truncates toward zero.
GoDiv(a, b) == IF a >= 0 THEN a \div b ELSE 0 - ((0 - a) \div b)

\* query.go:109: the number of iterations GenerateQueries asks for.
Iterations(n) == GoDiv(n, Len(Shapes))

\* query.go:56-86: the three queries built from one location.
QueriesFor(loc) == [k \in 1 .. Len(Shapes) |-> <<Shapes[k], loc>>]

\* RunBatchSearch is not running.
MainIdle ==
    /\ queries = allQueries(0, 0)
    /\ batchSize = 0
    /\ ctxDone = FALSE
    /\ ctxAtEntry = FALSE
    /\ pc = "make"
    /\ i = 0
    /\ rateLimiter = 0
    /\ wg = 0
    /\ successCount = 0
    /\ failureCount = 0
    /\ results = NilSlice
    /\ unit = [g \in {} |-> IdleUnit]
    /\ returned = [successCount |-> 0, failureCount |-> 0, results |-> NilSlice]
    /\ calls = [p \in {} |-> 0]
    /\ writes = [p \in {} |-> 0]
    /\ atCancel = [g \in {} |-> "idle"]

mainVars == <<queries, batchSize, ctxDone, pc, i, rateLimiter, wg, successCount,
              failureCount, results, unit, returned, calls, writes, atCancel,
              ctxAtEntry>>

\* main.go:158, 167: GenerateQueries is entered with the value of the
\* -numqueries flag, any int.
GenInit ==
    /\ MainIdle
    /\ \E n \in (0 - 3) .. MaxCount :
          gen = [GenIdle EXCEPT !.pc = "read", !.n = n]

\* query.go:94-103: long-lat.json is read and parsed, with a panic when
\* that fails (no locations: -1).
GenRead ==
    /\ gen.pc = "read"
    /\ \E k \in (0 - 1) .. MaxLocations :
          gen' = IF k < 0
                    THEN [gen EXCEPT !.pc = "panicked"]
                    ELSE [gen EXCEPT !.pc = "make", !.locations = k]
    /\ UNCHANGED mainVars

\* query.go:109, 48: makeQueries is called with n/3, and make panics on a
\* negative capacity.
GenMake ==
    /\ gen.pc = "make"
    /\ gen' = IF Iterations(gen.n) * Len(Shapes) < 0
                 THEN [gen EXCEPT !.pc = "panicked"]
                 ELSE [gen EXCEPT !.pc = "loop", !.i = 0]
    /\ UNCHANGED mainVars

\* query.go:50-87: one iteration of makeQueries' loop, or its end.
\* rand.Intn panics when there is no location.
GenLoop ==
    /\ gen.pc = "loop"
    /\ IF gen.i < Iterations(gen.n)
          THEN IF gen.locations = 0
                  THEN gen' = [gen EXCEPT !.pc = "panicked"]
                  ELSE \E loc \in 1 .. gen.locations :
                          gen' = [gen EXCEPT !.queries = @ \o QueriesFor(loc),
                                             !.i = @ + 1]
          ELSE gen' = [gen EXCEPT !.pc = "write"]
    /\ UNCHANGED mainVars

\* query.go:111-124: the queries are written to queries.json, with a panic
\* when that fails.
GenWrite ==
    /\ gen.pc = "write"
    /\ \E ok \in BOOLEAN :
          gen' = [gen EXCEPT !.pc = IF ok THEN "done" ELSE "panicked"]
    /\ UNCHANGED mainVars

GenNext ==
    \/ GenRead
    \/ GenMake
    \/ GenLoop
    \/ GenWrite

GenSpec == GenInit /\ [][GenNext]_vars

------------------------------------------------------------------------------
\* C11: once ctx is cancelled the dispatcher sends no more to rateLimiter,
\* so that no position that had no slot at the cancellation gets one, or a
\* goroutine, afterwards.
C11_NoAdmissionAfterCancel ==
    [][ctxDone => ~(pc = "send" /\ pc' = "go")]_vars

\* The dispatcher can go no further: it waits to send, the channel takes no
\* value, and no goroutine holds one that it would receive.
Stuck ==
    /\ pc = "send"
    /\ ~CanSend
    /\ \A g \in Positions : unit[g].pc \in {"idle", "done", "exit"}

\* C12: with batchSize < 1 RunBatchSearch neither panics nor blocks for
\* ever, and no goroutine is started.
C12_RefusesBadLimit ==
    batchSize < 1 =>
        /\ pc # "panicked"
        /\ ~Stuck
        /\ \A g \in Positions : unit[g].pc = "idle" /\ calls[g] = 0

\* C13: when ctx is cancelled at the entry of RunBatchSearch, no goroutine is
\* started and performSearch is never called.
C13_RefusesCancelledCtx ==
    ctxAtEntry => \A g \in Positions : unit[g].pc = "idle" /\ calls[g] = 0

\* C14: GenerateQueries writes queries.json only for a count that is a
\* multiple of the number of shapes, and then with exactly that many queries.
C14_RejectsNonMultiple ==
    gen.pc = "done" =>
        /\ gen.n % Len(Shapes) = 0
        /\ Len(gen.queries) = gen.n

\* C15: with batchSize >= 1, when every goroutine that can step does and
\* every call returns, RunBatchSearch returns.
C15_Terminates == (batchSize >= 1) ~> HasReturned

\* A return of a run in which the second goroutine had to wait for the slot
\* of the first.
C15_Witness ==
    /\ HasReturned
    /\ batchSize = 1
    /\ L >= 2
    /\ rateLimiter = 0
    /\ wg = 0

\* The goroutines that have been started, and those that hold a place of
\* rateLimiter: started, and not yet past their receive.
Started == {g \in Positions : unit[g].pc # "idle"}
HoldsSlot == {g \in Started : unit[g].pc \notin {"done", "exit"}}

\* C16: the goroutines started are those of the positions before the loop
\* index, so that a position gets its slot and its goroutine only after
\* every position before it has.
C16_AdmittedInOrder ==
    /\ Started = {g \in Positions : g < i}
    /\ pc \in {"send", "go"} => i \in Positions
    /\ \A g \in Started : unit[g].queryIndex = g

\* Position 1 is started while position 0, started before, is still in
\* its call.
C16_Witness ==
    /\ L >= 2
    /\ i = 2
    /\ unit[0].pc \in {"do", "read"}
    /\ unit[1].pc = "do"

\* The number of receives from rateLimiter so far: the sends less what the
\* channel holds.
Receives == Cardinality(Started) + (IF pc = "go" THEN 1 ELSE 0) - rateLimiter

\* C17: every receive from rateLimiter comes after the receiving
\* goroutine's atomic add and its assignment to results: there are never
\* more receives than counts or than written slots, and a goroutine past its
\* receive has its QueryResult in results.
C17_RecordBeforeRelease ==
    /\ Receives <= successCount + failureCount
    /\ Receives <= Cardinality({p \in Positions : writes[p] >= 1})
    /\ \A g \in Started :
          unit[g].pc \in {"done", "exit"} =>
              /\ writes[unit[g].queryIndex] = 1
              /\ results[unit[g].queryIndex].Error = unit[g].err
              /\ results[unit[g].queryIndex].Result = unit[g].result

\* With one slot, position 1 has been started: position 0 is counted and
\* written.
C17_Witness ==
    /\ batchSize = 1
    /\ L >= 2
    /\ unit[1].pc = "do"
    /\ Receives = 1
    /\ writes[0] = 1
    /\ successCount + failureCount = 1

\* C18: no two goroutines have the same queryIndex, a slot of results is
\* written at most once and by the goroutine of its position, and when the
\* dispatcher reads results for its return every slot has been written and
\* no goroutine is left to write.
C18_ExclusiveSlots ==
    /\ \A g, h \in Started : g # h => unit[g].queryIndex # unit[h].queryIndex
    /\ \A p \in Positions :
          /\ writes[p] <= 1
          /\ writes[p] = 1 =>
                /\ unit[p].queryIndex = p
                /\ unit[p].pc \in {"release", "done", "exit"}
    /\ pc \in {"return", "returned"} =>
          \A p \in Positions : writes[p] = 1 /\ unit[p].pc = "exit"

\* Two goroutines are about to write to results at the same time.
C18_Witness ==
    /\ L >= 2
    /\ unit[0].pc = "write"
    /\ unit[1].pc = "write"
    /\ unit[0].queryIndex # unit[1].queryIndex

\* The smaller of two numbers.
Min(a, b) == IF a <= b THEN a ELSE b

\* C19: when the dispatcher is at its send, the send can be done if and
\* only if fewer than batchSize goroutines hold a slot; what the channel
\* holds is the goroutines that hold a slot.
C19_BlockedIffFull ==
    pc = "send" =>
        /\ (ENABLED Send) <=> (Cardinality(HoldsSlot) < batchSize)
        /\ rateLimiter = Cardinality(HoldsSlot)

\* As many goroutines as the smaller of batchSize and len(queries) are in
\* their calls at once, more than one.
C19_Witness ==
    /\ batchSize >= 2
    /\ L >= 2
    /\ Cardinality(HoldsSlot) = Min(batchSize, L)
    /\ \A g \in HoldsSlot : unit[g].pc \in {"do", "read", "decode"}

\* C20: with batchSize = 1, whenever a goroutine has been started, every
\* goroutine of a position before it has returned from its call, counted,
\* written its QueryResult and received from rateLimiter; at most one
\* goroutine is in its call, and the calls are made in input order.
C20_SequentialAtOne ==
    batchSize = 1 =>
        /\ \A g \in Started : \A h \in Positions :
              h < g =>
                 /\ unit[h].pc \in {"done", "exit"}
                 /\ calls[h] = 1
                 /\ writes[h] = 1
                 /\ successCount + failureCount >= g
        /\ Cardinality({g \in Positions : unit[g].pc \in {"do", "read", "decode"}}) <= 1
        /\ \A g, h \in Positions : (h < g /\ calls[g] = 1) => calls[h] = 1

\* With one slot, position 1 is in its call and position 0 is past its
\* receive.
C20_Witness ==
    /\ batchSize = 1
    /\ L >= 2
    /\ unit[1].pc = "read"
    /\ unit[0].pc \in {"done", "exit"}
    /\ calls[0] = 1

====
